---- MODULE Spec2Model ----
(***************************************************************************)
(* Model of app.py: the OTP signup / login handlers, the two MongoDB       *)
(* collections they share (users, pending_users) and the background        *)
(* thread clean_expired_otps.                                              *)
(*                                                                         *)
(* Every request is served by its own thread, so a handler is a sequence   *)
(* of steps, one per store operation (each pymongo call is atomic on one   *)
(* collection, nothing groups two calls), and steps of different handlers  *)
(* interleave freely.                                                      *)
(*                                                                         *)
(* The clock advances in steps of five minutes, so timedelta(minutes=5)   *)
(* is 1 unit; time.sleep(60) is shorter than one step of the clock, so     *)
(* clean_expired_otps can run at every instant.  Timestamps are kept       *)
(* relative to the current instant: datetime.now(timezone.utc) is the      *)
(* origin, and time passing (Tick) moves every stored timestamp one unit   *)
(* towards the past.  The code compares a timestamp with the current       *)
(* instant only, so timestamps more than MaxPast units old need not be     *)
(* told apart.                                                             *)
(*                                                                         *)
(* The catalog cache (load_items_by_category and the routes on top of it)  *)
(* shares nothing with the OTP handlers but the process; it has its own    *)
(* specification, SpecCatalog, whose clock advances in steps of five       *)
(* seconds (CacheTick), so CACHE_TTL = 10 seconds is 2 units.              *)
(***************************************************************************)
EXTENDS Integers, FiniteSets, Sequences, TLC

\* ------------------------------------------------------------------ bounds
\* Timestamps more than MaxPast units old are stored as Now - MaxPast - 1.
MaxPast == 0
\* Number of challenges (pending_users documents) ever inserted.
MaxCh == 2
\* Ages of the catalog cache are told apart up to CACHE_TTL + MaxLag units.
MaxLag == 1

\* ------------------------------------------------------- program constants
\* timedelta(minutes=5), in units of five minutes
OTP_TTL == 1
\* datetime.now(timezone.utc): the origin of the timestamps
Now == 0
DEFAULT_PROFILE_PIC == "https://i.pravatar.cc/150?img=12"
\* CACHE_TTL = 10 (seconds), in units of five seconds
CACHE_TTL == 2
\* thumbnail or "https://via.placeholder.com/150"
PLACEHOLDER == "https://via.placeholder.com/150"

\* ------------------------------------------------------------ input values
\* Handler threads that can run at the same time.
Slots == {1, 2}
\* data.get(...) of a missing or empty field is falsy: modelled by "".
Contacts == {"ann@x.com"}
ContactInputs == Contacts \cup {""}
NameInputs == {"", "Ann"}
PasswordInputs == {"", "pw123"}
\* str(random.randint(100000, 999999)): one of the 900000 values
Otps == {"123456"}
\* the OTP a caller submits: the one that was sent, or another one
OtpInputs == Otps \cup {"000000"}

\* A login-type document has no name / password key.
Absent == "<absent>"

NoRec == [id |-> 0, contact |-> "", otp |-> "", otp_expiry |-> 0,
          login_otp |-> FALSE, name |-> Absent, password |-> Absent]
\* (created_at, which no handler reads, is left out of the users documents)
NoUser == [id |-> 0, name |-> "", contact |-> "", method |-> "", password |-> "",
           verified |-> FALSE, image |-> ""]

VARIABLES
    users,        \* db["users"]: set of documents (no unique index is created)
    pending,      \* db["pending_users"]: set of documents
    req,          \* per handler thread: program counter and locals
    nextCh,       \* next _id of a pending_users document
    resp,         \* the answer returned by the step just taken, if it returned one
    swept,        \* history: documents removed by clean_expired_otps
    consumed,     \* history: _ids of challenges a verification succeeded on
    lastInvalid,  \* history: per contact, the challenge an "Invalid OTP" answer
                  \* was last given for, while no signup / send-login-otp step
                  \* and no retry has followed
    quiet,        \* history: per contact, whether no other verification of the
                  \* contact was running when that answer was given, or ran since
    rcAlive,      \* whether the thread of clean_expired_otps is still running
    file,         \* what is at EXCEL_PATH: nothing, or a workbook
    cache,        \* _cache: data, timestamp (and, history, when data was read)
    load,         \* per handler thread: position in load_items_by_category, locals
    out,          \* the answer of the catalog step just taken, if it returned one
    prev          \* history: the last call of load_items_by_category that returned

catalogVars == <<file, cache, load, out, prev>>
otpVars == <<users, pending, req, nextCh, resp,
             swept, consumed, lastInvalid, quiet, rcAlive>>
vars == <<users, pending, req, nextCh, resp,
          swept, consumed, lastInvalid, quiet, rcAlive, catalogVars>>

Idle == [pc |-> "idle", kind |-> "", contact |-> "", name |-> "", password |-> "",
         otp |-> "", expiry |-> 0, rec |-> NoRec, user |-> NoUser,
         retry |-> FALSE, alone |-> FALSE]

\* the body of a "Login successful" answer
NoProfile == [name |-> "", contact |-> "", userId |-> 0, image |-> ""]

NoResp == [kind |-> "", contact |-> "", otp |-> "", rec |-> NoRec,
           user |-> NoUser, gone |-> {}, retry |-> FALSE, alone |-> FALSE,
           profile |-> NoProfile, result |-> ""]

\* ---------------------------------------------------------------- helpers
\* bcrypt.generate_password_hash(password).decode("utf-8"): opaque, one-way
generate_password_hash(password) == "$2b$" \o password
\* bcrypt.check_password_hash(hash, password)
check_password_hash(hash, password) == hash = generate_password_hash(password)

\* collection.find({"contact": contact})
ByContact(coll, contact) == {d \in coll : d.contact = contact}
\* pending_users.find({"contact": contact, "login_otp": flag})
ByContactType(contact, flag) ==
    {d \in pending : d.contact = contact /\ d.login_otp = flag}

\* (mutant: the expiry test written `now >= otp_expiry`)
IsExpiredAtExpiry(t, otp_expiry) == t >= otp_expiry
\* `now > otp_expiry` of verify_otp / verify_login_otp
IsExpired(t, otp_expiry) == t > otp_expiry
\* (mutant: the OTP comparison left out)
OtpNeverCompared(rec, otp) == TRUE
\* `record["otp"] != otp` negated
OtpMatches(rec, otp) == rec.otp = otp
\* (mutant: the sweep filter written with $lte)
SweepFilterLte(d, t) == d.otp_expiry <= t
\* {"otp_expiry": {"$lt": now}} of clean_expired_otps
SweepFilter(d, t) == d.otp_expiry < t

\* (mutant: the profile picture of the answer left empty)
ProfileWithoutImage(user) ==
    [name |-> user.name, contact |-> user.contact, userId |-> user.id, image |-> ""]
\* name, contact, userId, image of login / verify_login_otp;
\* user.get("image", DEFAULT_PROFILE_PIC) falls back when the key is missing
Profile(user) ==
    [name |-> user.name, contact |-> user.contact, userId |-> user.id,
     image |-> IF user.image = Absent THEN DEFAULT_PROFILE_PIC ELSE user.image]

\* a new request is served by the first thread that is free
Free(r) == req[r].pc = "idle" /\ \A q \in Slots : q < r => req[q].pc # "idle"
\* the handler of thread r returns `res`; `gone` is what its last store call removed
Return(r, locals, gone, res) ==
    /\ UNCHANGED <<rcAlive, catalogVars>>
    /\ req' = [req EXCEPT ![r] = Idle]
    /\ resp' = [kind |-> locals.kind, contact |-> locals.contact,
                otp |-> locals.otp, rec |-> locals.rec,
                user |-> locals.user, gone |-> gone, retry |-> locals.retry,
                alone |-> locals.alone,
                profile |-> IF res = "LoginOk" THEN Profile(locals.user)
                            ELSE NoProfile,
                result |-> res]
\* a step that is not a return
Goto(r, locals) ==
    /\ UNCHANGED <<rcAlive, catalogVars>>
    /\ req' = [req EXCEPT ![r] = locals]
    /\ resp' = NoResp

BeginKinds == {"signup", "send_login_otp"}
VerifyKinds == {"verify_otp", "verify_login_otp"}
\* begin requests that will still insert a document
ToInsert == {r \in Slots : req[r].pc \in {"s_delmany", "s_insert", "l_delmany", "l_insert"}}
Budget == nextCh + Cardinality(ToInsert) <= MaxCh

\* a step of a signup / send-login-otp handler on `contact` ends the retry window
ClearInvalid(contact) ==
    /\ lastInvalid' = [c \in Contacts |-> IF c = contact THEN NoRec ELSE lastInvalid[c]]
    /\ quiet' = [c \in Contacts |-> c # contact /\ quiet[c]]
\* a step of a verification of `contact`
Disturb(contact) ==
    /\ quiet' = [c \in Contacts |-> c # contact /\ quiet[c]]
    /\ UNCHANGED lastInvalid
\* a step of a handler that touches no challenge
Calm == UNCHANGED <<lastInvalid, quiet>>
\* the other handlers that are serving a request on `contact`
Others(r, contact) ==
    {q \in Slots \ {r} : req[q].pc # "idle" /\ req[q].contact = contact}

\* ------------------------------------------------------- the catalog: data
\* EXCEL_PATH.exists() is false
Missing == "<missing>"
\* A row of a sheet, below the header row: row[0], row[1], row[4] (the other
\* columns are copied to the item like row[4]); an empty cell is "".
Row(id, title, image) == [id |-> id, title |-> title, image |-> image]
\* The workbooks storage.xlsx can hold: the sheets of wb.sheetnames, in order.
Sheets(workbook) ==
    IF workbook = "coins.xlsx"
    THEN << [name |-> "Coins",
             rows |-> << Row("1", "Penny", ""), Row("2", "Dime", "dime.png") >>],
            [name |-> "Notes", rows |-> << >>] >>
    ELSE << [name |-> "Coins",
             rows |-> << Row("7", "Cent", "cent.png"), Row("", "Untitled", "x.png"),
                         Row("", "", "") >>],
            [name |-> "Medals", rows |-> << Row("3", "Star", "") >>] >>
Workbooks == {"coins.xlsx", "coins2.xlsx"}

\* lines 258-261: `not any(row)`, `not row[0] or not row[1]`
KeepRow(row) ==
    /\ row.id # "" \/ row.title # "" \/ row.image # ""
    /\ row.id # "" /\ row.title # ""
\* lines 262-275
Item(sheet_name, row) ==
    [id |-> sheet_name \o "_" \o row.id, title |-> row.title, image |-> row.image,
     category |-> sheet_name]
\* lines 254-277: one category per sheet, in the order of the sheets
SheetItems(sheet) ==
    LET kept == SelectSeq(sheet.rows, KeepRow) IN
    [i \in 1..Len(kept) |-> Item(sheet.name, kept[i])]
\* lines 251-277: categories, a dict in insertion order
Build(workbook) ==
    LET sheets == Sheets(workbook) IN
    [i \in 1..Len(sheets) |-> [name |-> sheets[i].name, items |-> SheetItems(sheets[i])]]
\* {} of line 249; _cache["data"] = None is falsy like {}, and is read only
\* where it is truthy
NoData == << >>
\* `if _cache["data"]`
Truthy(data) == data # NoData

\* (mutant: the thumbnail taken from the first item only)
ThumbnailOfFirstEntry(items) == IF items = << >> THEN "" ELSE Head(items).image
\* lines 289-293: the image of the first item that has one
RECURSIVE Thumbnail(_)
Thumbnail(items) ==
    IF items = << >> THEN ""
    ELSE IF Head(items).image # "" THEN Head(items).image
    ELSE Thumbnail(Tail(items))
\* lines 285-299
get_category_list(data) ==
    [i \in 1..Len(data) |->
        [name |-> data[i].name,
         count |-> Len(data[i].items),
         thumbnail |-> IF Thumbnail(data[i].items) # ""
                       THEN Thumbnail(data[i].items) ELSE PLACEHOLDER]]

\* time.time() values are kept relative to the current instant, like the
\* timestamps of the challenges; Oldest stands for every earlier instant
\* (the initial _cache["timestamp"] = 0 is one)
Oldest == Now - CACHE_TTL - MaxLag
\* (mutant: the freshness test written with <=)
CacheFreshAtTtl(age) == age <= CACHE_TTL
\* `time.time() - _cache["timestamp"] < CACHE_TTL`
CacheFresh(age) == age < CACHE_TTL

\* history: how the last call that returned ended, what it returned and when
\* it began, if no other call ran while it did (how = "" otherwise); whether
\* the call that is running runs alone, and when it began
NoPrev == [how |-> "", data |-> NoData, start |-> Oldest,
           alone |-> FALSE, began |-> Oldest]
\* (readAt, the instant of the read of the workbook, is history)
IdleLoad == [pc |-> "idle", categories |-> NoData, readAt |-> Now]
\* readAge: how long before the call the data it returned was read
NoOut == [how |-> "", data |-> NoData, list |-> << >>, readAge |-> 0, result |-> ""]

Init ==
    /\ file = Missing
    /\ cache = [data |-> NoData, timestamp |-> Oldest, read |-> Oldest]
    /\ load = [r \in Slots |-> IdleLoad]
    /\ out = NoOut
    /\ prev = NoPrev
    /\ users = {}
    /\ pending = {}
    /\ req = [r \in Slots |-> Idle]
    /\ nextCh = 1
    /\ resp = NoResp
    /\ swept = {}
    /\ consumed = {}
    /\ lastInvalid = [c \in Contacts |-> NoRec]
    /\ quiet = [c \in Contacts |-> FALSE]
    /\ rcAlive = TRUE

\* ------------------------------------------------------------------ signup
\* lines 87-100: validation, duplicate check, otp, expiry, hash
SignupBegin(r, name, contact, password, otp) ==
    /\ Free(r)
    /\ LET locals == [Idle EXCEPT !.kind = "signup", !.contact = contact] IN
       IF name = "" \/ contact = "" \/ password = ""
       THEN /\ Return(r, locals, {}, "ValidationError")
            /\ Calm
       ELSE IF ByContact(users, contact) # {}
       THEN /\ Return(r, locals, {}, "DuplicateUserError")
            /\ Calm
       ELSE /\ Budget
            /\ Goto(r, [locals EXCEPT !.pc = "s_delmany", !.name = name,
                               !.password = generate_password_hash(password),
                               !.otp = otp, !.expiry = Now + OTP_TTL])
            /\ ClearInvalid(contact)
    /\ UNCHANGED <<users, pending, nextCh, swept, consumed>>

\* line 102: pending_users.delete_many({"contact": contact})
SignupDeleteMany(r) ==
    /\ req[r].pc = "s_delmany"
    /\ pending' = pending \ ByContact(pending, req[r].contact)
    /\ Goto(r, [req[r] EXCEPT !.pc = "s_insert"])
    /\ ClearInvalid(req[r].contact)
    /\ UNCHANGED <<users, nextCh, swept, consumed>>

\* lines 104-112: pending_users.insert_one({...})
SignupInsert(r) ==
    /\ req[r].pc = "s_insert"
    /\ LET doc == [id |-> nextCh, contact |-> req[r].contact, otp |-> req[r].otp,
                   otp_expiry |-> req[r].expiry, login_otp |-> FALSE,
                   name |-> req[r].name, password |-> req[r].password] IN
       /\ pending' = pending \cup {doc}
       /\ Goto(r, [req[r] EXCEPT !.pc = "s_send", !.rec = doc])
    /\ nextCh' = nextCh + 1
    /\ ClearInvalid(req[r].contact)
    /\ UNCHANGED <<users, swept, consumed>>

\* lines 114-117: send_email_otp returns (sent) or raises
SignupSend(r, sent) ==
    /\ req[r].pc = "s_send"
    /\ IF sent THEN Return(r, req[r], {}, "OtpSent")
       ELSE Goto(r, [req[r] EXCEPT !.pc = "s_rollback"])
    /\ ClearInvalid(req[r].contact)
    /\ UNCHANGED <<users, pending, nextCh, swept, consumed>>

\* pending_users.delete_one({"contact": contact}) and the answer `res`:
\* delete_one removes one matching document, whichever the store meets first
DeleteOne(r, at, res) ==
    /\ req[r].pc = at
    /\ LET match == ByContact(pending, req[r].contact) IN
          IF match = {}
          THEN pending' = pending /\ Return(r, req[r], {}, res)
          ELSE \E d \in match : pending' = pending \ {d} /\ Return(r, req[r], {d}, res)

\* lines 118-119
SignupRollback(r) ==
    /\ DeleteOne(r, "s_rollback", "NotificationError")
    /\ ClearInvalid(req[r].contact)
    /\ UNCHANGED <<users, nextCh, swept, consumed>>

\* -------------------------------------------------------------- verify_otp
\* history: a verification carrying the OTP of the challenge of lastInvalid,
\* begun before that challenge expires, is the retry; the retry window closes
\* when it looks the challenge up
Retry(contact, flag, otp) ==
    /\ lastInvalid[contact] # NoRec
    /\ lastInvalid[contact].login_otp = flag
    /\ lastInvalid[contact].otp = otp
    /\ lastInvalid[contact].otp_expiry >= Now
NoteFind(contact, flag, otp) ==
    IF Retry(contact, flag, otp) THEN ClearInvalid(contact) ELSE Disturb(contact)
\* history: a wrong OTP is answered; the retry window opens if the challenge
\* is still stored and no signup / send-login-otp for the contact is running
NoteInvalid(r, rec) ==
    LET begins == {q \in Others(r, rec.contact) : req[q].kind \in BeginKinds}
        kept == rec \in pending /\ begins = {} IN
    /\ lastInvalid' = [c \in Contacts |->
                         IF c # rec.contact THEN lastInvalid[c]
                         ELSE IF kept THEN rec ELSE NoRec]
    /\ quiet' = [c \in Contacts |->
                   IF c = rec.contact THEN kept /\ Others(r, c) = {} ELSE quiet[c]]

\* find_one({"contact": contact, "login_otp": flag}) and the 404 answer
Find(r, kind, flag, contact, otp, next) ==
    /\ LET locals == [Idle EXCEPT !.kind = kind, !.contact = contact, !.otp = otp,
                                  !.retry = Retry(contact, flag, otp),
                                  !.alone = Retry(contact, flag, otp) /\ quiet[contact]]
           match == ByContactType(contact, flag) IN
          IF match = {}
          THEN Return(r, locals, {}, "NotFoundError")
          ELSE \E d \in match : Goto(r, [locals EXCEPT !.pc = next, !.rec = d])
    /\ NoteFind(contact, flag, otp)
    /\ UNCHANGED <<users, pending, nextCh, swept, consumed>>

\* (mutant: a wrong OTP handled like an expired challenge, which deletes it)
CheckDropsOnMismatch(r, at, expire, accept) ==
    /\ IF IsExpired(Now, req[r].rec.otp_expiry) \/ ~OtpMatches(req[r].rec, req[r].otp)
       THEN Goto(r, [req[r] EXCEPT !.pc = expire])
       ELSE Goto(r, [req[r] EXCEPT !.pc = accept])
    /\ Disturb(req[r].contact)
    /\ UNCHANGED <<users, pending, nextCh, swept, consumed>>

\* now = datetime.now(timezone.utc); the expiry test and the OTP comparison
Check(r, at, expire, accept) ==
    /\ LET locals == req[r] IN
       IF IsExpired(Now, req[r].rec.otp_expiry)
       THEN /\ Goto(r, [locals EXCEPT !.pc = expire])
            /\ Disturb(req[r].contact)
       ELSE IF ~OtpMatches(req[r].rec, req[r].otp)
       THEN /\ Return(r, locals, {}, "InvalidOtpError")
            /\ NoteInvalid(r, req[r].rec)
       ELSE /\ Goto(r, [locals EXCEPT !.pc = accept])
            /\ Disturb(req[r].contact)
    /\ UNCHANGED <<users, pending, nextCh, swept, consumed>>

\* lines 123-129
VerifyOtpFind(r, contact, otp) ==
    /\ Free(r)
    /\ Find(r, "verify_otp", FALSE, contact, otp, "v_check")

\* lines 131-141
VerifyOtpCheck(r) ==
    /\ req[r].pc = "v_check"
    /\ Check(r, "v_check", "v_expire", "v_insert")

\* lines 137-138
VerifyOtpExpire(r) ==
    /\ DeleteOne(r, "v_expire", "ExpiredError")
    /\ Disturb(req[r].contact)
    /\ UNCHANGED <<users, nextCh, swept, consumed>>

\* lines 143-151: users.insert_one({...})
NewUser(rec) ==
    [id |-> Cardinality(users) + 1, name |-> rec.name, contact |-> rec.contact,
     method |-> "email", password |-> rec.password, verified |-> TRUE,
     image |-> DEFAULT_PROFILE_PIC]
VerifyOtpInsert(r) ==
    /\ req[r].pc = "v_insert"
    /\ users' = users \cup {NewUser(req[r].rec)}
    /\ Goto(r, [req[r] EXCEPT !.pc = "v_delete"])
    /\ Disturb(req[r].contact)
    /\ UNCHANGED <<pending, nextCh, swept, consumed>>

\* lines 153-154
VerifyOtpDelete(r) ==
    /\ DeleteOne(r, "v_delete", "Verified")
    /\ consumed' = consumed \cup {req[r].rec.id}
    /\ Disturb(req[r].contact)
    /\ UNCHANGED <<users, nextCh, swept>>

\* ------------------------------------------------------------------- login
\* lines 158-175
Login(r, contact, password) ==
    /\ Free(r)
    /\ LET locals == [Idle EXCEPT !.kind = "login", !.contact = contact]
           match == ByContact(users, contact) IN
          IF match = {}
          THEN Return(r, locals, {}, "NotFoundError")
          ELSE \E u \in match :
               IF check_password_hash(u.password, password)
               THEN Return(r, [locals EXCEPT !.user = u], {}, "LoginOk")
               ELSE Return(r, locals, {}, "InvalidCredentialsError")
    /\ Calm
    /\ UNCHANGED <<users, pending, nextCh, swept, consumed>>

\* ---------------------------------------------------------- send_login_otp
\* (mutant: the look-up of the user left out)
SendLoginOtpBeginAnyContact(r, contact, otp) ==
    /\ Free(r)
    /\ Budget
    /\ Goto(r, [Idle EXCEPT !.kind = "send_login_otp", !.contact = contact,
                            !.pc = "l_delmany", !.otp = otp,
                            !.expiry = Now + OTP_TTL])
    /\ ClearInvalid(contact)
    /\ UNCHANGED <<users, pending, nextCh, swept, consumed>>

\* lines 179-187
SendLoginOtpBegin(r, contact, otp) ==
    /\ Free(r)
    /\ LET locals == [Idle EXCEPT !.kind = "send_login_otp", !.contact = contact] IN
       IF ByContact(users, contact) = {}
       THEN /\ Return(r, locals, {}, "NotFoundError")
            /\ Calm
       ELSE /\ Budget
            /\ Goto(r, [locals EXCEPT !.pc = "l_delmany", !.otp = otp,
                               !.expiry = Now + OTP_TTL])
            /\ ClearInvalid(contact)
    /\ UNCHANGED <<users, pending, nextCh, swept, consumed>>

\* line 189
SendLoginOtpDeleteMany(r) ==
    /\ req[r].pc = "l_delmany"
    /\ pending' = pending \ ByContact(pending, req[r].contact)
    /\ Goto(r, [req[r] EXCEPT !.pc = "l_insert"])
    /\ ClearInvalid(req[r].contact)
    /\ UNCHANGED <<users, nextCh, swept, consumed>>

\* lines 190-195
SendLoginOtpInsert(r) ==
    /\ req[r].pc = "l_insert"
    /\ LET doc == [id |-> nextCh, contact |-> req[r].contact, otp |-> req[r].otp,
                   otp_expiry |-> req[r].expiry, login_otp |-> TRUE,
                   name |-> Absent, password |-> Absent] IN
       /\ pending' = pending \cup {doc}
       /\ Goto(r, [req[r] EXCEPT !.pc = "l_send", !.rec = doc])
    /\ nextCh' = nextCh + 1
    /\ ClearInvalid(req[r].contact)
    /\ UNCHANGED <<users, swept, consumed>>

\* lines 197-201: the except branch only answers 500
SendLoginOtpSend(r, sent) ==
    /\ req[r].pc = "l_send"
    /\ Return(r, req[r], {}, IF sent THEN "OtpSent" ELSE "NotificationError")
    /\ ClearInvalid(req[r].contact)
    /\ UNCHANGED <<users, pending, nextCh, swept, consumed>>

\* -------------------------------------------------------- verify_login_otp
\* lines 205-211
VerifyLoginOtpFind(r, contact, otp) ==
    /\ Free(r)
    /\ Find(r, "verify_login_otp", TRUE, contact, otp, "vl_check")

\* lines 213-223
VerifyLoginOtpCheck(r) ==
    /\ req[r].pc = "vl_check"
    /\ Check(r, "vl_check", "vl_expire", "vl_user")

\* lines 219-220
VerifyLoginOtpExpire(r) ==
    /\ DeleteOne(r, "vl_expire", "ExpiredError")
    /\ Disturb(req[r].contact)
    /\ UNCHANGED <<users, nextCh, swept, consumed>>

\* line 225: user = users.find_one({"contact": contact})
VerifyLoginOtpUser(r) ==
    /\ req[r].pc = "vl_user"
    /\ LET match == ByContact(users, req[r].contact) IN
          IF match = {} THEN Goto(r, [req[r] EXCEPT !.pc = "vl_delete"])
          ELSE \E u \in match : Goto(r, [req[r] EXCEPT !.pc = "vl_delete", !.user = u])
    /\ Disturb(req[r].contact)
    /\ UNCHANGED <<users, pending, nextCh, swept, consumed>>

\* lines 226-234: the delete, then user.get(...) (AttributeError when user is None)
VerifyLoginOtpDelete(r) ==
    /\ DeleteOne(r, "vl_delete",
                 IF req[r].user = NoUser THEN "ServerError" ELSE "LoginOk")
    /\ consumed' = IF req[r].user = NoUser THEN consumed
                   ELSE consumed \cup {req[r].rec.id}
    /\ Disturb(req[r].contact)
    /\ UNCHANGED <<users, nextCh, swept>>

\* ------------------------------------------------------ clean_expired_otps
\* a removed document is remembered as long past
Old(d) == [d EXCEPT !.otp_expiry = Now - MaxPast - 1]
\* lines 75-77: now = datetime.now(timezone.utc); delete_many; time.sleep(60)
ReclaimerTick ==
    /\ rcAlive
    /\ pending' = {d \in pending : ~SweepFilter(d, Now)}
    /\ swept' = swept \cup {Old(d) : d \in {e \in pending : SweepFilter(e, Now)}}
    /\ resp' = NoResp
    /\ UNCHANGED <<users, req, nextCh, consumed, lastInvalid, quiet, rcAlive>>
    /\ UNCHANGED catalogVars

\* line 76 raises (the store cannot be reached): nothing in clean_expired_otps
\* catches it, so the exception leaves `while True` and the thread ends
ReclaimerFail ==
    /\ rcAlive
    /\ rcAlive' = FALSE
    /\ resp' = NoResp
    /\ UNCHANGED <<users, pending, req, nextCh, swept, consumed, lastInvalid, quiet>>
    /\ UNCHANGED catalogVars

\* -------------------------------------------------------------------- time
\* Five minutes pass.
Earlier(t) == IF t >= Now - MaxPast THEN t - 1 ELSE t
EarlierDoc(d) == IF d = NoRec THEN d ELSE [d EXCEPT !.otp_expiry = Earlier(@)]
Tick ==
    /\ pending' = {EarlierDoc(d) : d \in pending}
    /\ req' = [r \in Slots |->
                 IF req[r].pc = "idle" THEN req[r]
                 ELSE [req[r] EXCEPT !.expiry = Earlier(@), !.rec = EarlierDoc(@)]]
    /\ lastInvalid' = [c \in Contacts |-> EarlierDoc(lastInvalid[c])]
    /\ resp' = NoResp
    /\ UNCHANGED <<users, nextCh, swept, consumed, quiet, rcAlive, catalogVars>>

Next ==
    \/ \E r \in Slots, n \in NameInputs, c \in ContactInputs, p \in PasswordInputs,
          o \in Otps : SignupBegin(r, n, c, p, o)
    \/ \E r \in Slots : SignupDeleteMany(r)
    \/ \E r \in Slots : SignupInsert(r)
    \/ \E r \in Slots, sent \in BOOLEAN : SignupSend(r, sent)
    \/ \E r \in Slots : SignupRollback(r)
    \/ \E r \in Slots, c \in Contacts, o \in OtpInputs : VerifyOtpFind(r, c, o)
    \/ \E r \in Slots : VerifyOtpCheck(r)
    \/ \E r \in Slots : VerifyOtpExpire(r)
    \/ \E r \in Slots : VerifyOtpInsert(r)
    \/ \E r \in Slots : VerifyOtpDelete(r)
    \/ \E r \in Slots, c \in Contacts, p \in PasswordInputs : Login(r, c, p)
    \/ \E r \in Slots, c \in Contacts, o \in Otps : SendLoginOtpBegin(r, c, o)
    \/ \E r \in Slots : SendLoginOtpDeleteMany(r)
    \/ \E r \in Slots : SendLoginOtpInsert(r)
    \/ \E r \in Slots, sent \in BOOLEAN : SendLoginOtpSend(r, sent)
    \/ \E r \in Slots, c \in Contacts, o \in OtpInputs : VerifyLoginOtpFind(r, c, o)
    \/ \E r \in Slots : VerifyLoginOtpCheck(r)
    \/ \E r \in Slots : VerifyLoginOtpExpire(r)
    \/ \E r \in Slots : VerifyLoginOtpUser(r)
    \/ \E r \in Slots : VerifyLoginOtpDelete(r)
    \/ ReclaimerTick
    \/ Tick

Spec == Init /\ [][Next]_vars

\* clean_expired_otps with a store that can fail, next to the signups that
\* create the challenges it sweeps
NextReclaimer ==
    \/ \E r \in Slots, n \in NameInputs, c \in ContactInputs, p \in PasswordInputs,
          o \in Otps : SignupBegin(r, n, c, p, o)
    \/ \E r \in Slots : SignupDeleteMany(r)
    \/ \E r \in Slots : SignupInsert(r)
    \/ \E r \in Slots, sent \in BOOLEAN : SignupSend(r, sent)
    \/ \E r \in Slots : SignupRollback(r)
    \/ ReclaimerTick
    \/ ReclaimerFail
    \/ Tick

\* a running thread is scheduled: after time.sleep(60) the loop body runs again
SpecReclaimer == Init /\ [][NextReclaimer]_vars /\ WF_vars(ReclaimerTick)

\* ------------------------------------------------- load_items_by_category
\* a new request is served by the first thread that is free
FreeLoader(r) ==
    load[r].pc = "idle" /\ \A q \in Slots : q < r => load[q].pc # "idle"
\* no other thread is inside load_items_by_category
Alone(r) == \A q \in Slots \ {r} : load[q].pc = "idle"

\* load_items_by_category returns `data` to the route of thread r, which
\* answers: /api/categories with data, /api/category-list with its list
\* (res = "ServerError": an exception left the function, Flask answers 500)
LoadReturn(r, how, data, readAge, res, alone, began) ==
    /\ load' = [load EXCEPT ![r] = IdleLoad]
    /\ out' = [how |-> how, data |-> data,
               list |-> IF res = "Ok" THEN get_category_list(data) ELSE << >>,
               readAge |-> readAge, result |-> res]
    /\ prev' = IF alone
               THEN [how |-> how, data |-> data, start |-> began,
                     alone |-> FALSE, began |-> Oldest]
               ELSE NoPrev
\* a step of load_items_by_category that is not a return
LoadGoto(r, locals) ==
    /\ load' = [load EXCEPT ![r] = locals]
    /\ out' = NoOut

\* lines 244-245: the cache test, and the answer from the cache
LoadCheck(r) ==
    /\ FreeLoader(r)
    /\ IF Truthy(cache.data) /\ CacheFresh(Now - cache.timestamp)
       THEN LoadReturn(r, "cached", cache.data, Now - cache.read, "Ok", Alone(r), Now)
       ELSE /\ LoadGoto(r, [IdleLoad EXCEPT !.pc = "c_exists"])
            /\ prev' = [prev EXCEPT !.alone = Alone(r),
                                    !.began = IF Alone(r) THEN Now ELSE Oldest]
    /\ UNCHANGED <<file, cache, otpVars>>

\* (mutant: a missing file raises instead of giving {})
LoadExistsRaises(r) ==
    /\ load[r].pc = "c_exists"
    /\ IF file = Missing
       THEN LoadReturn(r, "missing", NoData, 0, "ServerError", prev.alone, prev.began)
       ELSE LoadGoto(r, [load[r] EXCEPT !.pc = "c_read"]) /\ UNCHANGED prev
    /\ UNCHANGED <<file, cache, otpVars>>

\* lines 247-249: EXCEL_PATH.exists()
LoadExists(r) ==
    /\ load[r].pc = "c_exists"
    /\ IF file = Missing
       THEN LoadReturn(r, "missing", NoData, 0, "Ok", prev.alone, prev.began)
       ELSE LoadGoto(r, [load[r] EXCEPT !.pc = "c_read"]) /\ UNCHANGED prev
    /\ UNCHANGED <<file, cache, otpVars>>

\* lines 251-277: openpyxl.load_workbook (FileNotFoundError when the file has
\* gone since line 247) and the loop over the sheets
LoadRead(r) ==
    /\ load[r].pc = "c_read"
    /\ IF file = Missing
       THEN LoadReturn(r, "error", NoData, 0, "ServerError", prev.alone, prev.began)
       ELSE /\ LoadGoto(r, [load[r] EXCEPT !.pc = "c_setdata",
                                           !.categories = Build(file),
                                           !.readAt = Now])
            /\ UNCHANGED prev
    /\ UNCHANGED <<file, cache, otpVars>>

\* line 279: _cache["data"] = categories
LoadSetData(r) ==
    /\ load[r].pc = "c_setdata"
    /\ cache' = [cache EXCEPT !.data = load[r].categories, !.read = load[r].readAt]
    /\ LoadGoto(r, [load[r] EXCEPT !.pc = "c_stamp", !.readAt = Now])
    /\ UNCHANGED <<file, prev, otpVars>>

\* lines 280-282: _cache["timestamp"] = time.time(); return categories
LoadStamp(r) ==
    /\ load[r].pc = "c_stamp"
    /\ cache' = [cache EXCEPT !.timestamp = Now]
    /\ LoadReturn(r, "built", load[r].categories, 0, "Ok", prev.alone, prev.began)
    /\ UNCHANGED <<file, otpVars>>

\* storage.xlsx is put in place, replaced or removed
DatasetChange(to) ==
    /\ to # file
    /\ file' = to
    /\ out' = NoOut
    /\ UNCHANGED <<cache, load, prev, otpVars>>

\* Five seconds pass.
Ago(t) == IF t > Oldest THEN t - 1 ELSE t
CacheTick ==
    /\ cache' = [cache EXCEPT !.timestamp = Ago(@), !.read = Ago(@)]
    /\ load' = [r \in Slots |->
                  IF load[r].pc = "c_setdata" THEN [load[r] EXCEPT !.readAt = Ago(@)]
                  ELSE load[r]]
    /\ prev' = [prev EXCEPT !.start = Ago(@), !.began = Ago(@)]
    /\ out' = NoOut
    /\ UNCHANGED <<file, otpVars>>

NextCatalog ==
    \/ \E r \in Slots : LoadCheck(r)
    \/ \E r \in Slots : LoadExists(r)
    \/ \E r \in Slots : LoadRead(r)
    \/ \E r \in Slots : LoadSetData(r)
    \/ \E r \in Slots : LoadStamp(r)
    \/ \E to \in Workbooks \cup {Missing} : DatasetChange(to)
    \/ CacheTick

SpecCatalog == Init /\ [][NextCatalog]_vars

\* =================================================================== claims
OkResults == {"Verified", "LoginOk"}
\* handlers serving a request on `contact`
InFlight(contact) == {r \in Slots : req[r].pc # "idle" /\ req[r].contact = contact}
TypeOf(kind) == kind = "verify_login_otp"

\* C1: the Pending Store holds at most one PendingChallenge for each contact,
\* in every reachable state.
AtMostOneChallengePerContact ==
    \A c \in Contacts : Cardinality(ByContact(pending, c)) <= 1

\* C2: the Credential Store holds at most one UserRecord per contact, in every
\* reachable state.
AtMostOneUserPerContact ==
    \A c \in Contacts : Cardinality(ByContact(users, c)) <= 1

\* C3: a UserRecord is added only by the insert step of a verify-signup that
\* read a signup-type challenge of the contact from the Pending Store, found it
\* unexpired and its OTP equal to the submitted one; the record carries the
\* challenge's name, contact and password hash, and verified = TRUE; nothing
\* else changes the Credential Store.
UserOnlyFromVerifiedSignup ==
    [][/\ \A r \in Slots :
            /\ (req[r].pc = "idle" /\ req'[r].pc = "v_check")
                  => /\ req'[r].rec \in pending
                     /\ req'[r].rec.login_otp = FALSE
                     /\ req'[r].rec.contact = req'[r].contact
            /\ (req[r].pc # "v_insert" /\ req'[r].pc = "v_insert")
                  => /\ req[r].pc = "v_check"
                     /\ req[r].rec.otp_expiry >= Now
                     /\ req[r].rec.otp = req[r].otp
                     /\ req'[r].rec = req[r].rec
       /\ users' # users
            => \E r \in Slots :
                 /\ req[r].kind = "verify_otp"
                 /\ req[r].pc = "v_insert" /\ req'[r].pc = "v_delete"
                 /\ \E u \in users' \ users :
                      /\ users' = users \cup {u}
                      /\ u.name = req[r].rec.name
                      /\ u.contact = req[r].rec.contact
                      /\ u.password = req[r].rec.password
                      /\ u.verified = TRUE]_vars

\* C3 witness: a verify-signup has answered "Account verified" and the user it
\* built from the challenge is in the Credential Store.
UserCreatedByVerify ==
    /\ resp.kind = "verify_otp" /\ resp.result = "Verified"
    /\ \E u \in users : u.name = resp.rec.name /\ u.password = resp.rec.password

\* C4: when signup answers NotificationError after its email send failed and
\* no other request for the contact is in flight, no PendingChallenge of the
\* contact remains.
SignupRollbackLeavesNoChallenge ==
    (/\ resp.kind = "signup" /\ resp.result = "NotificationError"
     /\ InFlight(resp.contact) = {})
        => ByContact(pending, resp.contact) = {}

\* C5: when send-login-otp answers NotificationError after its email send
\* failed, no PendingChallenge of the contact remains.
LoginOtpRollbackLeavesNoChallenge ==
    (resp.kind = "send_login_otp" /\ resp.result = "NotificationError")
        => ByContact(pending, resp.contact) = {}

CheckPcs == {"v_check", "vl_check"}
ExpirePcs == {"v_expire", "vl_expire"}
AcceptPcs == {"v_insert", "vl_user"}
DeletePcs == {"v_delete", "vl_delete"}

VerifiedDeletesItsChallenge ==
    (/\ resp.kind \in VerifyKinds /\ resp.result \in OkResults
     /\ Cardinality(ByContact(pending, resp.contact) \cup resp.gone) <= 1)
        => /\ \A d \in pending : d.id # resp.rec.id
           /\ \A d \in resp.gone : d.id = resp.rec.id

\* a wrong OTP before expiry answers InvalidOtpError, and neither the look-up
\* nor the answer of a verification changes the two stores
InvalidOtpChangesNothing ==
    [][/\ \A r \in Slots :
            /\ (/\ req[r].pc \in CheckPcs /\ req'[r].pc # req[r].pc
                /\ req[r].rec.otp_expiry >= Now /\ req[r].rec.otp # req[r].otp)
                  => /\ resp'.result = "InvalidOtpError"
                     /\ req'[r].pc = "idle"
            /\ (req[r].pc = "idle" /\ req'[r].pc \in CheckPcs)
                  => UNCHANGED <<pending, users>>
       /\ (resp' # NoResp /\ resp'.result = "InvalidOtpError")
            => UNCHANGED <<pending, users>>]_vars

\* C8 (as claimed): a wrong OTP before expiry is answered InvalidOtpError and
\* changes neither store; the next attempt with the correct OTP, begun before
\* expiry with no signup / send-login-otp for the contact running in between,
\* succeeds (unless the challenge expires before it is checked).
RetryAfterInvalidSucceeds ==
    /\ InvalidOtpChangesNothing
    /\ [](resp.retry => resp.result \in OkResults \cup {"ExpiredError"})

\* C8 (amended): the same, for a challenge that is still stored when the wrong
\* attempt is answered and a retry with no other request for the contact
\* running from that answer until the retry reads the challenge.
QuietRetryAfterInvalidSucceeds ==
    /\ InvalidOtpChangesNothing
    /\ [](\A c \in Contacts :
            (quiet[c] /\ lastInvalid[c] # NoRec /\ lastInvalid[c].otp_expiry >= Now)
                => lastInvalid[c] \in pending)
    /\ []((resp.retry /\ resp.alone) => resp.result \in OkResults \cup {"ExpiredError"})

\* C8 witness: such a retry has succeeded.
QuietRetrySucceeded ==
    resp.retry /\ resp.alone /\ resp.result \in OkResults

\* C9: a challenge yields at most one successful verification: no verification
\* succeeds on a challenge that a verification has already succeeded on.
ChallengeVerifiedOnce ==
    [][(resp' # NoResp /\ resp'.kind \in VerifyKinds /\ resp'.result \in OkResults)
          => resp'.rec.id \notin consumed]_vars

\* C10: a Reclaimer tick removes every challenge whose otp_expiry is strictly
\* before the current instant, keeps every other challenge, adds none, and
\* leaves the Credential Store unchanged.
ReclaimerRemovesExactlyExpired ==
    [][ReclaimerTick
          => /\ \A d \in pending :
                  /\ d.otp_expiry < Now => d \notin pending'
                  /\ d.otp_expiry >= Now => d \in pending'
             /\ pending' \subseteq pending
             /\ users' = users]_vars

\* C10 witness: a tick has removed an expired challenge and kept an unexpired
\* one that was in the store with it.
SweptOneKeptOther ==
    \E s \in swept, d \in pending : d.id < s.id /\ d.otp_expiry >= Now

\* C14: no step of verify_login_otp changes the users collection, whatever it
\* answers, and the profile of a "Login successful" answer carries the name,
\* contact and image of a users document of that contact.
VerifyLoginOtpKeepsUsers ==
    [][/\ \A r \in Slots :
            (/\ "verify_login_otp" \in {req[r].kind, req'[r].kind}
             /\ req'[r] # req[r])
                => users' = users
       /\ (resp' # NoResp /\ resp'.kind = "verify_login_otp")
            => /\ users' = users
               /\ resp'.result \in {"NotFoundError", "ExpiredError",
                                    "InvalidOtpError", "LoginOk"}
               /\ resp'.result = "LoginOk"
                    => \E u \in users :
                          /\ u.contact = resp'.contact
                          /\ resp'.profile.name = u.name
                          /\ resp'.profile.contact = u.contact
                          /\ resp'.profile.image = u.image]_vars

\* C14 witness: verify_login_otp has answered with the profile of the user.
LoginOtpAnsweredProfile ==
    /\ resp.kind = "verify_login_otp" /\ resp.result = "LoginOk"
    /\ resp.profile.name = "Ann" /\ resp.profile.image = DEFAULT_PROFILE_PIC

\* C17: verify_otp removes signup-type challenges only and verify_login_otp
\* login-type challenges only, on expiry as on success.
VerifyDeletesOwnTypeOnly ==
    resp.kind \in VerifyKinds
        => /\ resp.rec # NoRec => resp.rec.login_otp = TypeOf(resp.kind)
           /\ \A d \in resp.gone : d.login_otp = TypeOf(resp.kind)

\* C19: every login-type challenge in pending_users is of a contact that has
\* a users document, users documents are never removed, and verify_login_otp
\* never fails for want of the users document.
LoginChallengeHasUser ==
    /\ [](\A d \in pending : d.login_otp => ByContact(users, d.contact) # {})
    /\ [](\A r \in Slots : req[r].pc = "vl_delete" => req[r].user # NoUser)
    /\ [](resp.kind = "verify_login_otp" => resp.result # "ServerError")
    /\ [][users \subseteq users']_vars

\* C19 witness: a login-type challenge is stored for a registered contact.
LoginChallengeStored ==
    \E d \in pending : d.login_otp /\ ByContact(users, d.contact) # {}

\* C20: the rollback of a signup whose e-mail could not be sent removes the
\* challenge that this signup inserted, and no other (here with every other
\* request for the contact answered, and a store that held at most one
\* challenge of the contact when the rollback ran).
RollbackRemovesOwnChallenge ==
    (/\ resp.kind = "signup" /\ resp.result = "NotificationError"
     /\ InFlight(resp.contact) = {}
     /\ Cardinality(ByContact(pending, resp.contact) \cup resp.gone) <= 1)
        => \A d \in resp.gone : d.id = resp.rec.id

\* C11: an error of the bulk delete does not end the loop of
\* clean_expired_otps: the thread keeps running and ticks again.
ReclaimerSurvivesStoreError == rcAlive

\* C12: a challenge that has expired and stays in pending_users (never
\* verified, never replaced) is eventually removed by clean_expired_otps.
ExpiredChallengeEventuallySwept ==
    \A i \in 1..MaxCh :
        (\E d \in pending : d.id = i /\ d.otp_expiry < Now)
            ~> ~(\E d \in pending : d.id = i)

\* no thread is inside load_items_by_category
AllIdle == \A r \in Slots : load[r].pc = "idle"
\* the step is a call of load_items_by_category that finds the cache usable
CacheHit == out' # NoOut /\ out'.how = "cached"
\* the step is a call that goes on to the workbook
CacheMiss == \E r \in Slots : load[r].pc = "idle" /\ load'[r].pc = "c_exists"

\* C13 (as claimed): a call that begins less than CACHE_TTL after the call
\* before it began, which looked for the workbook (and found it, or found it
\* missing), returns the mapping that call returned (no other call
\* overlapping either of them).
TwoLoadsWithinTtlAgree ==
    [][(/\ out' # NoOut /\ out'.result = "Ok"
        /\ prev.how \in {"missing", "built"}
        /\ IF CacheHit THEN AllIdle /\ Now - prev.start < CACHE_TTL
           ELSE /\ prev.alone /\ prev.began > Oldest
                /\ prev.began - prev.start < CACHE_TTL)
          => out'.data = prev.data]_vars

\* C13 (amended): the same for a first call that built the mapping from the
\* workbook; after a first call that found the workbook missing nothing is
\* cached and the second call looks for the workbook again; a call that finds
\* the cache CACHE_TTL old or older reads the workbook again, and a call
\* answered from the cache reads and changes nothing.
LoadsWithinTtlOfBuildAgree ==
    [][/\ (/\ AllIdle /\ (CacheHit \/ CacheMiss)
           /\ prev.how = "built"
           /\ Now - prev.start < CACHE_TTL)
             => CacheHit /\ out'.data = prev.data
       /\ (AllIdle /\ (CacheHit \/ CacheMiss) /\ prev.how = "missing")
             => CacheMiss
       /\ ((CacheHit \/ CacheMiss) /\ Now - cache.timestamp >= CACHE_TTL)
             => CacheMiss
       /\ CacheHit
             => /\ UNCHANGED <<cache, file>>
                /\ Now - cache.timestamp < CACHE_TTL
                /\ out'.data = cache.data /\ out'.data # NoData]_vars

\* C13 witness: a call was answered from the cache, five seconds after the
\* cache was stamped, although the workbook has changed since it was read.
CachedAnswerDespiteChange ==
    /\ out.how = "cached" /\ cache.timestamp = Now - 1
    /\ file \in Workbooks /\ Build(file) # out.data

\* C15: a call that looks for the workbook and finds it missing returns the
\* empty mapping, raises nothing and leaves the cache as it is; the call after
\* it looks for the workbook again, and a call that finds the workbook there
\* (and still there when it opens it) returns the mapping built from it.
MissingDatasetGivesEmpty ==
    [][/\ \A r \in Slots :
            /\ (load[r].pc = "c_exists" /\ load'[r].pc # "c_exists" /\ file = Missing)
                  => /\ out'.result = "Ok" /\ out'.data = NoData /\ out'.list = << >>
                     /\ load'[r].pc = "idle"
                     /\ cache' = cache
            /\ (load[r].pc = "c_exists" /\ load'[r].pc # "c_exists" /\ file # Missing)
                  => load'[r].pc = "c_read"
            /\ (load[r].pc = "c_read" /\ load'[r].pc # "c_read" /\ file # Missing)
                  => load'[r].pc = "c_setdata" /\ load'[r].categories = Build(file)
            /\ (load[r].pc = "c_setdata" /\ load'[r].pc # "c_setdata")
                  => load'[r].pc = "c_stamp" /\ load'[r].categories = load[r].categories
            /\ (load[r].pc = "c_stamp" /\ load'[r].pc # "c_stamp")
                  => out'.result = "Ok" /\ out'.data = load[r].categories
       /\ (AllIdle /\ (CacheHit \/ CacheMiss) /\ prev.how = "missing")
             => CacheMiss]_vars

\* C15 witness: the call after one that found the workbook missing has built
\* the mapping from the workbook that is there now.
BuiltAfterMissing ==
    /\ prev.how = "missing" /\ prev.alone
    /\ file \in Workbooks
    /\ \E r \in Slots : load[r].pc = "c_stamp" /\ load[r].categories = Build(file)

\* C16: a call answered from the cache never returns entries that were read
\* from the workbook more than CACHE_TTL before the call.
CachedEntriesNotOlderThanTtl ==
    out.how = "cached" => out.readAge <= CACHE_TTL

Images(items) == {items[j].image : j \in 1..Len(items)}

\* C18 (as claimed): category-list has one entry per category of the mapping,
\* in order, with its name, count = number of its items, and thumbnail = the
\* image of its first item, or the placeholder when it has no item or its
\* first item has no image.
CategoryListUsesFirstEntry ==
    out.result = "Ok"
        => /\ Len(out.list) = Len(out.data)
           /\ \A i \in 1..Len(out.data) :
                LET items == out.data[i].items IN
                /\ out.list[i].name = out.data[i].name
                /\ out.list[i].count = Len(items)
                /\ out.list[i].thumbnail =
                      IF items = << >> \/ items[1].image = ""
                      THEN PLACEHOLDER ELSE items[1].image

\* C18 (amended): the same with thumbnail = the image of the first item of
\* the category that has an image, or the placeholder when no item has one.
CategoryListUsesFirstImage ==
    out.result = "Ok"
        => /\ Len(out.list) = Len(out.data)
           /\ \A i \in 1..Len(out.data) :
                LET items == out.data[i].items IN
                /\ out.list[i].name = out.data[i].name
                /\ out.list[i].count = Len(items)
                /\ Images(items) \subseteq {""} => out.list[i].thumbnail = PLACEHOLDER
                /\ ~(Images(items) \subseteq {""})
                      => \E j \in 1..Len(items) :
                            /\ items[j].image # ""
                            /\ out.list[i].thumbnail = items[j].image
                            /\ \A k \in 1..(j - 1) : items[k].image = ""

\* C18 witness: a list with a category of count 0, and a category whose
\* thumbnail is not the image of its first item.
ListWithEmptyAndLaterImage ==
    /\ out.result = "Ok"
    /\ \E i \in 1..Len(out.list) :
          out.list[i].count = 0 /\ out.list[i].thumbnail = PLACEHOLDER
    /\ \E i \in 1..Len(out.list) :
          /\ out.list[i].count > 1
          /\ out.data[i].items[1].image = ""
          /\ out.list[i].thumbnail # PLACEHOLDER

====
